---- MODULE Spec2Model ----
(***************************************************************************)
(* Model of app.py (DC-5 filter tracker): the tie-aware percentile ranker,  *)
(* the primary-percentile zone filter with its local/global union, the box  *)
(* deduplication, the three passes of the manual filter engine              *)
(* (survivorship, initial counts, dynamic sequence) and the lazy            *)
(* initialisation of the module global GLOBAL_BOX_PCT.                      *)
(*                                                                         *)
(* Conventions.  A digit string is a sequence of digits.  Python lists are  *)
(* sequences (1-indexed here, 0-indexed positions are written p-1).  A      *)
(* float produced by _percentile_ranks is kept as the exact fraction        *)
(* <<num, den>> it stands for; on every list explored here, and on the      *)
(* full universe of boxes, round() of the double equals the half-to-even    *)
(* rounding of the exact fraction.                                          *)
(* An optional value (None or a value) is a sequence of length 0 or 1.      *)
(***************************************************************************)
EXTENDS Integers, Sequences, FiniteSets, TLC

\* ---------------------------------------------------------------- bounds
MaxLen == 4        \* longest input list given to _percentile_ranks
MaxVal == 2        \* largest value in such a list
MaxDigit == 2      \* digits are 0..MaxDigit
MaxBoxes == 2      \* boxes in the pool given to the filter engine
MaxFilters == 2    \* rows in the loaded filter list
NumRequests == 2   \* concurrent requests (script threads) in one process
MaxRuns == 2       \* script runs per request thread

\* ------------------------------------------------------ program constants
ComboLen == 5
PairCap == 20

Digits == 0..MaxDigit

VARIABLES
    values, ranks, rpc,                         \* _percentile_ranks: input, output, position
    seed, pair_group_a, pair_group_b, ZONES,    \* request inputs and the module's zone list
    straights, local_keep, global_keep,
    straights_after_ppf, boxes, ppc,
    GLOBAL_BOX_PCT,                             \* module global, None until first built
    filters, select_all, session_state, hide_zero,
    eliminated, survivors, evals,
    init_counts, sorted_filters, display_filters, pool, dynamic_counts, epc,
    tpc, tmp, runs, build_calls, publishes      \* request threads around lines 212-213

rankVars == <<values, ranks, rpc>>
pipeVars == <<seed, pair_group_a, pair_group_b, ZONES, straights, local_keep,
              global_keep, straights_after_ppf, ppc>>
elimVars == <<filters, select_all, session_state, hide_zero, eliminated, survivors,
              evals, init_counts, sorted_filters, display_filters, pool, dynamic_counts, epc>>
lazyVars == <<tpc, tmp, runs, build_calls, publishes>>
vars == <<rankVars, pipeVars, boxes, GLOBAL_BOX_PCT, elimVars, lazyVars>>

\* ------------------------------------------------------------ small helpers
Max2(a, b) == IF a >= b THEN a ELSE b

Range(s) == {s[i] : i \in 1..Len(s)}

RECURSIVE SumSeq(_)
SumSeq(s) == IF s = <<>> THEN 0 ELSE Head(s) + SumSeq(Tail(s))

\* list.sort(key=...) on range(n): the positions 1..n ordered by key, ties in
\* position order (Python's sort is stable).
RECURSIVE SortFrom(_, _)
SortFrom(keys, todo) ==
    IF todo = {} THEN <<>>
    ELSE LET v == CHOOSE x \in todo : \A y \in todo : x <= y
         IN SelectSeq([i \in 1..Len(keys) |-> i], LAMBDA i : keys[i] = v)
            \o SortFrom(keys, todo \ {v})

StableSortIdx(keys) == SortFrom(keys, Range(keys))

\* ----------------------------------------------------- _percentile_ranks
\* RunEnd that never extends the run: every sorted position is its own run
RunEndNoTies(vals, idx, i, j) == j

\* inner while of lines 99-101: the last sorted position of the run starting at i
RECURSIVE RunEnd(_, _, _, _)
RunEnd(vals, idx, i, j) ==
    IF j + 1 <= Len(vals) /\ vals[idx[j + 1]] = vals[idx[i]]
    THEN RunEnd(vals, idx, i, j + 1)
    ELSE j

\* RunPct with the divisor n in place of max(n-1, 1)
RunPctDivN(i0, j0, n) == <<(i0 + j0) * 100, 2 * Max2(n, 1)>>

\* lines 102-103 for the run at 0-indexed sorted positions i0..j0 of a list of n
RunPct(i0, j0, n) == <<(i0 + j0) * 100, 2 * Max2(n - 1, 1)>>

\* outer while of lines 98-106; i is the 1-indexed sorted position
RECURSIVE RankLoop(_, _, _, _)
RankLoop(vals, idx, i, rk) ==
    IF i > Len(vals) THEN rk
    ELSE LET j == RunEnd(vals, idx, i, i)
             pct == RunPct(i - 1, j - 1, Len(vals))
             hit == {idx[k] : k \in i..j}
         IN RankLoop(vals, idx, j + 1,
                     [p \in 1..Len(vals) |-> IF p \in hit THEN pct ELSE rk[p]])

_percentile_ranks(vals) ==
    IF Len(vals) = 0 THEN <<>>
    ELSE RankLoop(vals, StableSortIdx(vals), 1, [p \in 1..Len(vals) |-> <<0, 1>>])

\* int(round(p)) for a non-negative fraction: round half to even
IntRound(p) ==
    LET q == p[1] \div p[2]
        r == p[1] % p[2]
    IN IF 2 * r < p[2] THEN q
       ELSE IF 2 * r > p[2] THEN q + 1
       ELSE IF q % 2 = 0 THEN q ELSE q + 1

FracEq(a, b) == a[1] * b[2] = b[1] * a[2]

\* ---------------------------------------------------------------- zones
\* The text PRIMARY_PERCENTILE_ZONES after split(','): each part is <<lo, hi>>
\* when it reads "lo-hi" with two integers and <<>> when it does not parse.
PRIMARY_PERCENTILE_ZONES ==
    << <<0, 26>>, <<30, 35>>, <<36, 43>>, <<50, 60>>, <<60, 70>>, <<80, 83>>, <<93, 94>> >>

_parse_zones(zs) ==
    SelectSeq(zs, LAMBDA part : Len(part) = 2 /\ part[1] <= part[2])

\* line 110: any(lo<=pct<=hi for (lo,hi) in ZONES)
_in_any_zone(pct) == \E k \in 1..Len(ZONES) : ZONES[k][1] <= pct /\ pct <= ZONES[k][2]

\* ------------------------------------------------- straights and boxes
Perms == {p \in [1..ComboLen -> 1..ComboLen] : \A i, j \in 1..ComboLen : p[i] = p[j] => i = j}

_unique_permutations(s) == {[i \in 1..ComboLen |-> s[p[i]]] : p \in Perms}

\* every digit string of length ComboLen, in the order of Python's string comparison
RECURSIVE Pow(_, _)
Pow(b, e) == IF e = 0 THEN 1 ELSE b * Pow(b, e - 1)

AllStraights ==
    [k \in 1..Pow(MaxDigit + 1, ComboLen) |->
        [i \in 1..ComboLen |-> ((k - 1) \div Pow(MaxDigit + 1, ComboLen - i)) % (MaxDigit + 1)]]

\* sorted(S) for a set S of digit strings of length ComboLen
SortedStraights(S) == SelectSeq(AllStraights, LAMBDA s : s \in S)

\* ''.join(sorted(s))
BoxOf(s) == LET idx == StableSortIdx(s) IN [k \in 1..Len(s) |-> s[idx[k]]]

generate_permutation_pool(sd, group_a, group_b) ==
    SortedStraights(UNION {_unique_permutations(<<sd[k]>> \o group_a[a] \o group_b[b]) :
                              k \in 1..Len(sd), a \in 1..Len(group_a), b \in 1..Len(group_b)})

\* combinations_with_replacement(range(10), 5), in its emission order
all_boxes_full_enumeration ==
    SelectSeq(AllStraights, LAMBDA s : \A i \in 1..(ComboLen - 1) : s[i] <= s[i + 1])

build_global_box_percentiles ==
    LET bxs == all_boxes_full_enumeration
        sums == [k \in 1..Len(bxs) |-> SumSeq(bxs[k])]
        pcts == _percentile_ranks(sums)
    IN [b \in Range(bxs) |->
          IntRound(pcts[CHOOSE k \in 1..Len(bxs) : bxs[k] = b])]

None == <<>>
Some(x) == <<x>>

\* GLOBAL_BOX_PCT.get(key, 0) on a built map
GlobalGet(m, key) == IF key \in DOMAIN m THEN m[key] ELSE 0

\* ------------------------------------------------------- idle parts
RankIdle == values = <<>> /\ ranks = <<>> /\ rpc = "off"

PipeIdle ==
    /\ seed = <<>> /\ pair_group_a = <<>> /\ pair_group_b = <<>>
    /\ ZONES = _parse_zones(PRIMARY_PERCENTILE_ZONES)
    /\ straights = <<>> /\ local_keep = {} /\ global_keep = {}
    /\ straights_after_ppf = <<>> /\ ppc = "off"

ElimIdle ==
    /\ filters = <<>> /\ select_all = TRUE /\ session_state = <<>> /\ hide_zero = TRUE
    /\ eliminated = <<>> /\ survivors = <<>> /\ evals = <<>>
    /\ init_counts = <<>> /\ sorted_filters = <<>> /\ display_filters = <<>> /\ pool = <<>>
    /\ dynamic_counts = <<>> /\ epc = "off"

LazyIdle ==
    /\ tpc = <<>> /\ tmp = <<>> /\ runs = <<>> /\ build_calls = 0 /\ publishes = 0

\* ======================================================================
\* Specification of _percentile_ranks as a pure function
\* ======================================================================
RankInputs == UNION {[1..n -> 0..MaxVal] : n \in 0..MaxLen}

InitRank ==
    /\ values \in RankInputs /\ ranks = <<>> /\ rpc = "in"
    /\ PipeIdle /\ ElimIdle /\ LazyIdle
    /\ boxes = <<>> /\ GLOBAL_BOX_PCT = None

CallPercentileRanks ==
    /\ rpc = "in"
    /\ ranks' = _percentile_ranks(values)
    /\ rpc' = "out"
    /\ UNCHANGED <<values, pipeVars, boxes, GLOBAL_BOX_PCT, elimVars, lazyVars>>

NextRank == CallPercentileRanks

SpecRank == InitRank /\ [][NextRank]_vars

\* ---- claims about _percentile_ranks
CountLess(vals, v) == Cardinality({k \in 1..Len(vals) : vals[k] < v})
CountEq(vals, v) == Cardinality({k \in 1..Len(vals) : vals[k] = v})

\* avg_rank / max(n-1,1) * 100 with avg_rank the mean of the first and last
\* 0-indexed sorted positions of the values equal to v
AvgRankPct(vals, v) ==
    <<(CountLess(vals, v) + (CountLess(vals, v) + CountEq(vals, v) - 1)) * 100,
      2 * (IF Len(vals) - 1 > 1 THEN Len(vals) - 1 ELSE 1)>>

\* C7: the output has one entry per input position, and the entry at position i is
\* the average-rank percentile of the run of values equal to input[i]; equal inputs
\* get identical percentiles, and a single-value input gets 0.
C7_AverageRankPercentile ==
    rpc = "out" =>
        /\ Len(ranks) = Len(values)
        /\ \A i \in 1..Len(values) : FracEq(ranks[i], AvgRankPct(values, values[i]))
        /\ \A i, j \in 1..Len(values) : values[i] = values[j] => ranks[i] = ranks[j]
        /\ Len(values) = 1 => FracEq(ranks[1], <<0, 1>>)

\* three equal values: all three positions get 50
C7_Witness ==
    /\ rpc = "out" /\ Len(values) = 3
    /\ values[1] = values[2] /\ values[2] = values[3]
    /\ \A i \in 1..3 : FracEq(ranks[i], <<50, 1>>)

IsMin(vals, i) == \A k \in 1..Len(vals) : vals[i] <= vals[k]
IsMax(vals, i) == \A k \in 1..Len(vals) : vals[i] >= vals[k]

\* C8 as stated: with two or more values, every position holding the minimum gets 0
\* and every position holding the maximum gets 100.
C8_MinZeroMaxHundred ==
    (rpc = "out" /\ Len(values) >= 2) =>
        \A i \in 1..Len(values) :
            /\ IsMin(values, i) => FracEq(ranks[i], <<0, 1>>)
            /\ IsMax(values, i) => FracEq(ranks[i], <<100, 1>>)

\* C8 amended: with two or more values, a position holding the minimum gets 0 when
\* the minimum occurs once, and a position holding the maximum gets 100 when the
\* maximum occurs once.
C8_UniqueMinZeroMaxHundred ==
    (rpc = "out" /\ Len(values) >= 2) =>
        \A i \in 1..Len(values) :
            /\ (IsMin(values, i) /\ CountEq(values, values[i]) = 1)
                   => FracEq(ranks[i], <<0, 1>>)
            /\ (IsMax(values, i) /\ CountEq(values, values[i]) = 1)
                   => FracEq(ranks[i], <<100, 1>>)

\* an input with a tie in the middle, a single minimum and a single maximum
C8_Witness ==
    /\ rpc = "out" /\ Len(values) = 4
    /\ \E i, j \in 1..4 :
          /\ IsMin(values, i) /\ CountEq(values, values[i]) = 1 /\ FracEq(ranks[i], <<0, 1>>)
          /\ IsMax(values, j) /\ CountEq(values, values[j]) = 1 /\ FracEq(ranks[j], <<100, 1>>)
    /\ \E i, j \in 1..4 : i # j /\ values[i] = values[j]

\* ======================================================================
\* Specification of the primary-percentile step of main (lines 193-219)
\* ======================================================================
\* parts a zone text may hold: two ranges, a reversed range, an unparsable part
ZoneParts == { <<0, 26>>, <<50, 60>>, <<60, 50>>, <<>> }

\* the zone texts tried: the shipped one, the empty one, one part, two ranges
ZoneTexts ==
    {PRIMARY_PERCENTILE_ZONES, <<>>, << <<0, 26>>, <<50, 60>> >>}
        \cup {<<p>> : p \in ZoneParts}

\* a seed is five digits: one digit repeated, or the digits in rotation
Seeds ==
    {[i \in 1..ComboLen |-> d] : d \in Digits}
        \cup {[i \in 1..ComboLen |-> (i - 1) % (MaxDigit + 1)]}

\* two-digit pairs: a doubled digit, or the lowest and highest digit
Pairs == {<<d, d>> : d \in Digits} \cup {<<0, MaxDigit>>}

\* a validated pair group: no pair, or one pair
PairGroups == {<<>>} \cup {<<p>> : p \in Pairs}

InitPipe ==
    /\ seed \in Seeds
    /\ pair_group_a \in PairGroups
    /\ pair_group_b \in PairGroups
    /\ \E zs \in ZoneTexts : ZONES = _parse_zones(zs)
    /\ straights = <<>> /\ local_keep = {} /\ global_keep = {}
    /\ straights_after_ppf = <<>> /\ boxes = <<>> /\ ppc = "input"
    /\ GLOBAL_BOX_PCT = None
    /\ RankIdle /\ ElimIdle /\ LazyIdle

\* lines 195-200: an empty pair group ends the request
RejectPairGroups ==
    /\ ppc = "input"
    /\ Len(pair_group_a) < 1 \/ Len(pair_group_b) < 1
    /\ ppc' = "rejected"
    /\ UNCHANGED <<rankVars, seed, pair_group_a, pair_group_b, ZONES, straights, local_keep,
                   global_keep, straights_after_ppf, boxes, GLOBAL_BOX_PCT, elimVars, lazyVars>>

Truncate(g) == IF Len(g) > PairCap THEN SubSeq(g, 1, PairCap) ELSE g

\* lines 201-205
GenerateStraights ==
    /\ ppc = "input"
    /\ Len(pair_group_a) >= 1 /\ Len(pair_group_b) >= 1
    /\ pair_group_a' = Truncate(pair_group_a)
    /\ pair_group_b' = Truncate(pair_group_b)
    /\ straights' = generate_permutation_pool(seed, pair_group_a', pair_group_b')
    /\ ppc' = "generated"
    /\ UNCHANGED <<rankVars, seed, ZONES, local_keep, global_keep, straights_after_ppf,
                   boxes, GLOBAL_BOX_PCT, elimVars, lazyVars>>

LocalPcts(ss) == _percentile_ranks([k \in 1..Len(ss) |-> SumSeq(ss[k])])

\* intersection in place of the union of line 216
KeepBoth(lk, gk) == lk \cap gk

\* line 216: local_keep | global_keep
KeepEither(lk, gk) == lk \cup gk

\* lines 208-216
PrimaryPercentile ==
    /\ ppc = "generated"
    /\ local_keep' = LET local_pcts == LocalPcts(straights)
                     IN {straights[k] : k \in {i \in 1..Len(straights) :
                                                  _in_any_zone(IntRound(local_pcts[i]))}}
    /\ GLOBAL_BOX_PCT' = IF GLOBAL_BOX_PCT = None
                         THEN Some(build_global_box_percentiles)
                         ELSE GLOBAL_BOX_PCT
    /\ global_keep' = {s \in Range(straights) :
                          _in_any_zone(GlobalGet(GLOBAL_BOX_PCT'[1], BoxOf(s)))}
    /\ straights_after_ppf' = SortedStraights(KeepEither(local_keep', global_keep'))
    /\ ppc' = "filtered"
    /\ UNCHANGED <<rankVars, seed, pair_group_a, pair_group_b, ZONES, straights, boxes,
                   elimVars, lazyVars>>

\* line 219
DeduplicateBoxes ==
    /\ ppc = "filtered"
    /\ boxes' = SortedStraights({BoxOf(s) : s \in Range(straights_after_ppf)})
    /\ ppc' = "boxes"
    /\ UNCHANGED <<rankVars, seed, pair_group_a, pair_group_b, ZONES, straights, local_keep,
                   global_keep, straights_after_ppf, GLOBAL_BOX_PCT, elimVars, lazyVars>>

NextPipe == RejectPairGroups \/ GenerateStraights \/ PrimaryPercentile \/ DeduplicateBoxes

SpecPipe == InitPipe /\ [][NextPipe]_vars

\* ---- claims about the primary-percentile step
\* C5: with an empty zone list the zone test is true of every integer percentile
\* 0..100, and the primary-percentile step removes no straight.
C5_EmptyZonesKeepAll ==
    (ZONES = <<>> /\ ppc = "filtered") =>
        /\ \A pct \in 0..100 : _in_any_zone(pct)
        /\ straights_after_ppf = straights

\* the rounded percentile of a straight in the generated pool, and of its box in
\* the universe of boxes, both by the average-rank rule
SumsOf(ss) == [k \in 1..Len(ss) |-> SumSeq(ss[k])]
LocalRounded(s) == IntRound(AvgRankPct(SumsOf(straights), SumSeq(s)))
GlobalRounded(s) == IntRound(AvgRankPct(SumsOf(all_boxes_full_enumeration), SumSeq(s)))
PassesEither(s) == _in_any_zone(LocalRounded(s)) \/ _in_any_zone(GlobalRounded(s))

\* C6: a generated straight is retained iff its rounded local percentile or the
\* rounded global percentile of its box lies in a zone, and a box is in the
\* deduplicated pool iff a generated straight of that box passes one of the tests.
C6_UnionOfLocalAndGlobal ==
    /\ ppc \in {"filtered", "boxes"} =>
          \A s \in Range(straights) : s \in Range(straights_after_ppf) <=> PassesEither(s)
    /\ ppc = "boxes" =>
          \A b \in Range(all_boxes_full_enumeration) :
              b \in Range(boxes) <=> \E s \in Range(straights) : BoxOf(s) = b /\ PassesEither(s)

\* zones [(0,26)]: a straight whose local percentile is outside the zone and whose
\* global percentile is inside it is retained, while another straight is removed
C6_Witness ==
    /\ ppc = "boxes" /\ ZONES = << <<0, 26>> >>
    /\ \E s \in Range(straights) :
          /\ ~_in_any_zone(LocalRounded(s)) /\ _in_any_zone(GlobalRounded(s))
          /\ s \in Range(straights_after_ppf) /\ BoxOf(s) \in Range(boxes)
    /\ \E s \in Range(straights) : s \notin Range(straights_after_ppf)

\* ======================================================================
\* Specification of the manual filter engine of main (lines 245-317)
\* ======================================================================
\* gen_ctx: the entries of the context that depend on the candidate
gen_ctx(cdigits) == [combo_digits |-> cdigits, combo_sum |-> SumSeq(cdigits)]

\* eval(code, ctx, ctx) for the compiled expressions the filter rows may hold:
\*   "True"            the constant (the default of a blank applicable_if, line 36)
\*   "Low"             combo_sum == 0
\*   "Div"             1/combo_sum > 0, which raises ZeroDivisionError when combo_sum is 0
\*   "Undefined"       a name the context lacks, which raises NameError
\* The result is "T" or "F" for the truth of the value, "X" for an exception.
Eval(code, ctx) ==
    CASE code = "True" -> "T"
      [] code = "Low" -> IF ctx.combo_sum = 0 THEN "T" ELSE "F"
      [] code = "Div" -> IF ctx.combo_sum = 0 THEN "X" ELSE "T"
      [] code = "Undefined" -> "X"

ApplicableCodes == {"True", "Low", "Undefined"}
ExprCodes == {"True", "Low", "Div"}

\* the rows load_filters returns: row k has id k and name k (ids and names are
\* distinct across the loaded rows; init_counts and dynamic_counts are keyed by id,
\* eliminated records the name)
FilterLists ==
    {[k \in 1..MaxFilters |->
         [id |-> k, name |-> k, applicable_code |-> c[k][1], expr_code |-> c[k][2],
          enabled_default |-> c[k][3]]] :
       c \in [1..MaxFilters -> ApplicableCodes \X ExprCodes \X BOOLEAN]}

\* st.session_state holds no checkbox key yet, or the key of one filter
SessionStates ==
    {<<>>} \cup {[x \in {k} |-> v] : k \in 1..MaxFilters, v \in BOOLEAN}

\* st.session_state.get(key, select_all and flt['enabled_default']), lines 253 and 300
Active(flt) ==
    IF flt.id \in DOMAIN session_state THEN session_state[flt.id]
    ELSE select_all /\ flt.enabled_default

\* ---- survivorship loop, lines 246-264
\* the try block an active filter's exception counts as a match
SurvTryRaiseEliminates(flt, ctx) ==
    IF Eval(flt.applicable_code, ctx) = "F" THEN "continue"
    ELSE IF Eval(flt.applicable_code, ctx) = "X" THEN "break"
    ELSE IF Eval(flt.expr_code, ctx) \in {"T", "X"} THEN "break"
    ELSE "continue"

\* lines 255-262 for one filter: "break" when it eliminates, else "continue"
SurvTry(flt, ctx) ==
    IF Eval(flt.applicable_code, ctx) = "X" THEN "continue"
    ELSE IF Eval(flt.applicable_code, ctx) = "F" THEN "continue"
    ELSE IF Eval(flt.expr_code, ctx) = "X" THEN "continue"
    ELSE IF Eval(flt.expr_code, ctx) = "T" THEN "break"
    ELSE "continue"

\* the inner for of lines 251-264 from filter k on: the index of the filter that
\* eliminates (0 when the loop runs out) and the filters whose try block ran
RECURSIVE SurvFilters(_, _, _, _)
SurvFilters(flts, ctx, k, tried) ==
    IF k > Len(flts) THEN [hit |-> 0, tried |-> tried]
    ELSE IF ~Active(flts[k]) THEN SurvFilters(flts, ctx, k + 1, tried)
    ELSE IF SurvTry(flts[k], ctx) = "break" THEN [hit |-> k, tried |-> Append(tried, k)]
    ELSE SurvFilters(flts, ctx, k + 1, Append(tried, k))

\* survivors.append(combo) without the for-else: every candidate is appended
AppendAlways(survs, combo, hit) == Append(survs, combo)

\* the else of the for, lines 263-264
AppendIfNoBreak(survs, combo, hit) == IF hit = 0 THEN Append(survs, combo) ELSE survs

\* the outer for of line 248 from candidate c on
RECURSIVE SurvLoop(_, _, _, _)
SurvLoop(bxs, flts, c, acc) ==
    IF c > Len(bxs) THEN acc
    ELSE LET combo == bxs[c]
             r == SurvFilters(flts, gen_ctx(combo), 1, <<>>)
         IN SurvLoop(bxs, flts, c + 1,
               [eliminated |->
                    IF r.hit = 0 THEN acc.eliminated
                    ELSE [x \in DOMAIN acc.eliminated \cup {combo} |->
                             IF x = combo THEN flts[r.hit].name ELSE acc.eliminated[x]],
                survivors |-> AppendIfNoBreak(acc.survivors, combo, r.hit),
                evals |-> acc.evals \o [i \in 1..Len(r.tried) |-> <<combo, r.tried[i]>>]])

\* ---- initial counts, lines 278-287
InitMatches(flt, ctx) ==
    /\ Eval(flt.applicable_code, ctx) = "T"
    /\ Eval(flt.expr_code, ctx) = "T"

RECURSIVE InitLoop(_, _, _, _)
InitLoop(bxs, flts, k, counts) ==
    IF k > Len(flts) THEN counts
    ELSE InitLoop(bxs, flts, k + 1,
            [counts EXCEPT ![flts[k].id] =
                @ + Cardinality({c \in 1..Len(bxs) : InitMatches(flts[k], gen_ctx(bxs[c]))})])

\* ---- order and display, lines 290-291
SortKey(ic) == IF ic = 0 THEN 1 ELSE 0 - ic

SortedFilters(flts, counts) ==
    LET idx == StableSortIdx([k \in 1..Len(flts) |-> SortKey(counts[flts[k].id])])
    IN [k \in 1..Len(flts) |-> flts[idx[k]]]

\* a display list that also hides the filters with a single initial elimination
DisplayHideSmall(sorted, counts, hide) ==
    IF hide THEN SelectSeq(sorted, LAMBDA flt : counts[flt.id] > 1) ELSE sorted

DisplayFilters(sorted, counts, hide) ==
    IF hide THEN SelectSeq(sorted, LAMBDA flt : counts[flt.id] > 0) ELSE sorted

\* ---- dynamic elimination sequence, lines 296-317
\* a dynamic pass that counts an exception as an elimination
DynMatchesOrRaises(flt, ctx) ==
    \/ Eval(flt.applicable_code, ctx) = "X"
    \/ /\ Eval(flt.applicable_code, ctx) = "T"
       /\ Eval(flt.expr_code, ctx) \in {"T", "X"}

\* lines 307-313: TRUE when dc is incremented, FALSE when the candidate is kept
DynMatches(flt, ctx) ==
    /\ Eval(flt.applicable_code, ctx) = "T"
    /\ Eval(flt.expr_code, ctx) = "T"

RECURSIVE DynLoop(_, _, _)
DynLoop(disp, k, acc) ==
    IF k > Len(disp) THEN acc
    ELSE LET flt == disp[k]
             gone == IF Active(flt)
                     THEN {c \in 1..Len(acc.pool) : DynMatches(flt, gen_ctx(acc.pool[c]))}
                     ELSE {}
             survivors_pool == SelectSeq(acc.pool,
                                   LAMBDA combo : ~(Active(flt) /\ DynMatches(flt, gen_ctx(combo))))
         IN DynLoop(disp, k + 1,
               [pool |-> survivors_pool,
                dynamic_counts |->
                    [x \in DOMAIN acc.dynamic_counts \cup {flt.id} |->
                        IF x = flt.id THEN Cardinality(gone) ELSE acc.dynamic_counts[x]]])

\* ---- the engine's inputs and steps
\* the deduplicated pool handed to the engine: the first MaxBoxes boxes
EnginePool == SubSeq(all_boxes_full_enumeration, 1, MaxBoxes)

InitElim ==
    /\ filters \in FilterLists
    /\ select_all \in BOOLEAN
    /\ hide_zero \in BOOLEAN
    /\ session_state \in SessionStates
    /\ boxes = EnginePool
    /\ eliminated = <<>> /\ survivors = <<>> /\ evals = <<>>
    /\ init_counts = <<>> /\ sorted_filters = <<>> /\ display_filters = <<>>
    /\ pool = <<>> /\ dynamic_counts = <<>> /\ epc = "filters"
    /\ GLOBAL_BOX_PCT = None
    /\ RankIdle /\ PipeIdle /\ LazyIdle

Survivorship ==
    /\ epc = "filters"
    /\ LET r == SurvLoop(boxes, filters, 1,
                    [eliminated |-> <<>>, survivors |-> <<>>, evals |-> <<>>])
       IN /\ eliminated' = r.eliminated
          /\ survivors' = r.survivors
          /\ evals' = r.evals
    /\ epc' = "counts"
    /\ UNCHANGED <<rankVars, pipeVars, boxes, GLOBAL_BOX_PCT, lazyVars, filters, select_all,
                   session_state, hide_zero, init_counts, sorted_filters, display_filters,
                   pool, dynamic_counts>>

InitialCounts ==
    /\ epc = "counts"
    /\ init_counts' = InitLoop(boxes, filters, 1, [x \in {filters[k].id : k \in 1..Len(filters)} |-> 0])
    /\ epc' = "order"
    /\ UNCHANGED <<rankVars, pipeVars, boxes, GLOBAL_BOX_PCT, lazyVars, filters, select_all,
                   session_state, hide_zero, eliminated, survivors, evals, sorted_filters,
                   display_filters, pool, dynamic_counts>>

OrderAndDisplay ==
    /\ epc = "order"
    /\ sorted_filters' = SortedFilters(filters, init_counts)
    /\ display_filters' = DisplayFilters(sorted_filters', init_counts, hide_zero)
    /\ epc' = "dynamic"
    /\ UNCHANGED <<rankVars, pipeVars, boxes, GLOBAL_BOX_PCT, lazyVars, filters, select_all,
                   session_state, hide_zero, eliminated, survivors, evals, init_counts,
                   pool, dynamic_counts>>

DynamicSequence ==
    /\ epc = "dynamic"
    /\ LET r == DynLoop(display_filters, 1, [pool |-> boxes, dynamic_counts |-> <<>>])
       IN /\ pool' = r.pool
          /\ dynamic_counts' = r.dynamic_counts
    /\ epc' = "done"
    /\ UNCHANGED <<rankVars, pipeVars, boxes, GLOBAL_BOX_PCT, lazyVars, filters, select_all,
                   session_state, hide_zero, eliminated, survivors, evals, init_counts,
                   sorted_filters, display_filters>>

NextElim == Survivorship \/ InitialCounts \/ OrderAndDisplay \/ DynamicSequence

SpecElim == InitElim /\ [][NextElim]_vars

\* ---- claims about the filter engine
Ctx(combo) == gen_ctx(combo)

\* both expressions evaluate, and both are true
CleanMatch(flt, combo) ==
    /\ Eval(flt.applicable_code, Ctx(combo)) = "T"
    /\ Eval(flt.expr_code, Ctx(combo)) = "T"

\* an expression that is evaluated for the pair raises
Raises(flt, combo) ==
    \/ Eval(flt.applicable_code, Ctx(combo)) = "X"
    \/ /\ Eval(flt.applicable_code, Ctx(combo)) = "T"
       /\ Eval(flt.expr_code, Ctx(combo)) = "X"

AfterSurvivorship == epc \in {"counts", "order", "dynamic", "done"}

NoDuplicates(sq) == \A i, j \in 1..Len(sq) : sq[i] = sq[j] => i = j

\* C1: at the end of the run the survivors list of the survivorship loop and the
\* working pool left by the dynamic sequence hold exactly the same boxes.
C1_SurvivorsEqualFinalPool ==
    epc = "done" => Range(survivors) = Range(pool) /\ Len(survivors) = Len(pool)

\* hide-zero is on and hides a filter, the display order differs from the load
\* order, one box is eliminated and one survives
C1_Witness ==
    /\ epc = "done" /\ hide_zero
    /\ Len(display_filters) < Len(filters)
    /\ sorted_filters # filters
    /\ DOMAIN eliminated # {} /\ survivors # <<>> /\ Len(pool) < Len(boxes)

\* C2: after the survivorship loop every box of the pool is either in the eliminated
\* map, with the name of one filter, or in the survivors list, never both or neither.
C2_EliminatedOrSurvivor ==
    AfterSurvivorship =>
        /\ \A k \in 1..Len(boxes) :
              (boxes[k] \in DOMAIN eliminated) <=> (boxes[k] \notin Range(survivors))
        /\ DOMAIN eliminated \subseteq Range(boxes)
        /\ Range(survivors) \subseteq Range(boxes)
        /\ NoDuplicates(survivors)
        /\ \A c \in DOMAIN eliminated :
              Cardinality({k \in 1..Len(filters) : filters[k].name = eliminated[c]}) = 1

C2_Witness ==
    /\ epc = "counts"
    /\ DOMAIN eliminated # {} /\ survivors # <<>>

\* dynamic_counts.get(flt['id'], 0), line 323
DynReported(flt) == IF flt.id \in DOMAIN dynamic_counts THEN dynamic_counts[flt.id] ELSE 0

\* C3: for every filter the dynamic count reported for it (0 when it is inactive or
\* hidden) is at most the initial count reported for it.
C3_DynamicAtMostInitial ==
    epc = "done" => \A k \in 1..Len(filters) : DynReported(filters[k]) <= init_counts[filters[k].id]

\* one filter removes as many boxes as it matches, a later one fewer than it matches
C3_Witness ==
    /\ epc = "done"
    /\ \E k \in 1..Len(filters) :
          DynReported(filters[k]) > 0 /\ DynReported(filters[k]) = init_counts[filters[k].id]
    /\ \E k \in 1..Len(filters) :
          Active(filters[k]) /\ DynReported(filters[k]) < init_counts[filters[k].id]

\* the filters tried for a candidate, in the order the survivorship loop tried them
Tried(combo) ==
    LET es == SelectSeq(evals, LAMBDA e : e[1] = combo)
    IN [i \in 1..Len(es) |-> filters[es[i][2]].name]

\* the names of the active filters of a list up to and including the first that
\* eliminates the candidate (all of them when none does)
RECURSIVE UpToFirstMatch(_, _, _)
UpToFirstMatch(order, combo, k) ==
    IF k > Len(order) THEN <<>>
    ELSE IF ~Active(order[k]) THEN UpToFirstMatch(order, combo, k + 1)
    ELSE IF CleanMatch(order[k], combo) THEN <<order[k].name>>
    ELSE <<order[k].name>> \o UpToFirstMatch(order, combo, k + 1)

FirstMatchIn(order, combo) ==
    LET t == UpToFirstMatch(order, combo, 1)
    IN IF t # <<>> /\ \E k \in 1..Len(order) :
                          order[k].name = t[Len(t)] /\ CleanMatch(order[k], combo)
       THEN <<t[Len(t)]>> ELSE <<>>

RecordedFor(combo) == IF combo \in DOMAIN eliminated THEN <<eliminated[combo]>> ELSE <<>>

\* C4 as stated: the survivorship pass tries the filters for each candidate in the
\* display order (descending initial count, zero counts last), up to the first active
\* filter both of whose expressions are true, and records that filter.
C4_FirstInDisplayOrder ==
    epc = "done" =>
        \A k \in 1..Len(boxes) :
            /\ Tried(boxes[k]) = UpToFirstMatch(sorted_filters, boxes[k], 1)
            /\ RecordedFor(boxes[k]) = FirstMatchIn(sorted_filters, boxes[k])

\* what the survivorship loop does: the same with the load order of the filter list
FirstInLoadOrder ==
    AfterSurvivorship =>
        \A k \in 1..Len(boxes) :
            /\ Tried(boxes[k]) = UpToFirstMatch(filters, boxes[k], 1)
            /\ RecordedFor(boxes[k]) = FirstMatchIn(filters, boxes[k])

\* C9: a (filter, candidate) pair whose evaluation raises is a non-match in all three
\* passes: the filter is not recorded for the candidate, the pair is in neither
\* count, the candidate stays in the pool and among the survivors unless an active
\* filter matches it cleanly, and the remaining filters and candidates are evaluated.
C9_RaiseIsNonMatch ==
    epc = "done" =>
        \A f \in 1..Len(filters), k \in 1..Len(boxes) :
            Raises(filters[f], boxes[k]) =>
                /\ RecordedFor(boxes[k]) # <<filters[f].name>>
                /\ init_counts[filters[f].id]
                       = Cardinality({c \in 1..Len(boxes) : CleanMatch(filters[f], boxes[c])})
                /\ DynReported(filters[f])
                       <= Cardinality({c \in 1..Len(boxes) : CleanMatch(filters[f], boxes[c])})
                /\ (\A g \in 1..Len(filters) :
                        ~(Active(filters[g]) /\ CleanMatch(filters[g], boxes[k])))
                       => boxes[k] \in Range(pool) /\ boxes[k] \in Range(survivors)
                /\ \A c \in 1..Len(boxes) :
                       Tried(boxes[c]) = UpToFirstMatch(filters, boxes[c], 1)
                /\ Cardinality(DOMAIN eliminated) + Len(survivors) = Len(boxes)

\* a filter raises for both candidates; a later filter is still evaluated and
\* eliminates one of them, and the other survives and stays in the pool
C9_Witness ==
    /\ epc = "done"
    /\ \E f \in 1..Len(filters) :
          /\ Active(filters[f])
          /\ \E k \in 1..Len(boxes) :
                /\ Raises(filters[f], boxes[k])
                /\ \E g \in (f + 1)..Len(filters) : RecordedFor(boxes[k]) = <<filters[g].name>>
          /\ \E k \in 1..Len(boxes) :
                /\ Raises(filters[f], boxes[k])
                /\ boxes[k] \in Range(survivors) /\ boxes[k] \in Range(pool)

\* ======================================================================
\* Specification of the lazy initialisation of GLOBAL_BOX_PCT (lines 122, 212-214)
\* under concurrent requests: each request runs main in its own thread, and a
\* thread may be preempted between the test of line 212, the call of line 213
\* and the assignment of line 213.
\* ======================================================================
Requests == 1..NumRequests

InitLazy ==
    /\ GLOBAL_BOX_PCT = None
    /\ tpc = [t \in Requests |-> "idle"]
    /\ tmp = [t \in Requests |-> None]
    /\ runs = [t \in Requests |-> 0]
    /\ build_calls = 0 /\ publishes = 0
    /\ boxes = <<>>
    /\ RankIdle /\ PipeIdle /\ ElimIdle

\* a request starts a run of main and reaches line 212
StartRun(t) ==
    /\ tpc[t] = "idle" /\ runs[t] < MaxRuns
    /\ tpc' = [tpc EXCEPT ![t] = "test"]
    /\ runs' = [runs EXCEPT ![t] = @ + 1]
    /\ UNCHANGED <<rankVars, pipeVars, boxes, GLOBAL_BOX_PCT, elimVars, tmp, build_calls, publishes>>

\* line 212: if GLOBAL_BOX_PCT is None
TestNone(t) ==
    /\ tpc[t] = "test"
    /\ tpc' = [tpc EXCEPT ![t] = IF GLOBAL_BOX_PCT = None THEN "build" ELSE "use"]
    /\ UNCHANGED <<rankVars, pipeVars, boxes, GLOBAL_BOX_PCT, elimVars, tmp, runs, build_calls, publishes>>

\* line 213, right-hand side: build_global_box_percentiles()
Build(t) ==
    /\ tpc[t] = "build"
    /\ tmp' = [tmp EXCEPT ![t] = Some(build_global_box_percentiles)]
    /\ build_calls' = build_calls + 1
    /\ tpc' = [tpc EXCEPT ![t] = "publish"]
    /\ UNCHANGED <<rankVars, pipeVars, boxes, GLOBAL_BOX_PCT, elimVars, runs, publishes>>

\* line 213, the assignment to the global
Publish(t) ==
    /\ tpc[t] = "publish"
    /\ GLOBAL_BOX_PCT' = tmp[t]
    /\ publishes' = publishes + 1
    /\ tmp' = [tmp EXCEPT ![t] = None]
    /\ tpc' = [tpc EXCEPT ![t] = "use"]
    /\ UNCHANGED <<rankVars, pipeVars, boxes, elimVars, runs, build_calls>>

\* line 214 reads the map; the rest of main does not touch it
UseMap(t) ==
    /\ tpc[t] = "use"
    /\ GLOBAL_BOX_PCT # None
    /\ tpc' = [tpc EXCEPT ![t] = "idle"]
    /\ UNCHANGED <<rankVars, pipeVars, boxes, GLOBAL_BOX_PCT, elimVars, tmp, runs, build_calls, publishes>>

NextLazy ==
    \E t \in Requests : StartRun(t) \/ TestNone(t) \/ Build(t) \/ Publish(t) \/ UseMap(t)

SpecLazy == InitLazy /\ [][NextLazy]_vars

\* C10: under any interleaving of the requests, build_global_box_percentiles runs at
\* most once and the global is assigned at most once.
C10_ComputeOncePublishOnce == build_calls <= 1 /\ publishes <= 1

\* what does hold: every request that uses the map reads a fully built one
LazyReadsBuiltMap ==
    \A t \in Requests : tpc[t] = "use" => GLOBAL_BOX_PCT = Some(build_global_box_percentiles)

====
